---- MODULE Spec2Model ----
(***************************************************************************)
(* A model of the EweGo GNSS firmware tools:                               *)
(*   - Firmware/gps-test/gps_logger.py: the GPSLogger acquisition pipeline *)
(*     (main thread, read/log worker, NTRIP relay worker), TimeSync and    *)
(*     NTRIPClient;                                                        *)
(*   - Firmware/gps-test/validate_ubx.py: UBXValidator.                    *)
(*                                                                         *)
(* Time is counted in ticks of 100 ms, measured from the GPS epoch origin; *)
(* the wall clock's own origin is placed at the same instant (a constant   *)
(* shift, which only the sign of the first comparison                      *)
(* `system_time - 0 >= 10.0` could see, and StartTime keeps that sign).    *)
(* Console output (print, print_status) is not part of the state.          *)
(***************************************************************************)
EXTENDS Integers, Sequences, FiniteSets, TLC

\* ------------------------------------------------------------------ bounds
MaxFrames == 3          \* events (frames, faults) the receiver produces in a run without NTRIP
MaxRelayFrames == 1     \* events the receiver produces in a run with NTRIP configured
MaxChunks == 1          \* correction chunks the caster sends in a run
StartTime == 6049000    \* wall clock at construction (one week and 100 s, in ticks)
MaxAdvance == 100       \* how far the wall clock advances in a run (ticks)
MaxSignals == 2           \* SIGINTs delivered to the camera recorder
MaxReports == 2           \* final reports printed by one logger in the reuse scenario
MaxSamples == 2           \* fixes fed to the sampler in the calendar scenario
MaxFileLen == 5         \* frames in a log file given to the validator

\* --------------------------------------------------------- program constants
TimesyncInterval == 100 \* gps_logger.py:291, 10.0 s in ticks of 100 ms
SecondsPerWeek == 604800 \* gps_logger.py:303, 7 * 24 * 3600
RateLimitTimes2 == 19   \* validate_ubx.py:161 and 166, the 9.5 Hz limit doubled
MinSatellites == 5
StatusInterval == 20        \* 2.0 s between status lines, in ticks      \* validate_ubx.py:172

\* Between two readings of time.time() the wall clock stands still or moves
\* by 5 s or by 10 s.
ClockSteps == {0, 50, 100}

VARIABLES
    \* ---- GPSLogger (gps_logger.py)
    main_pc,            \* position of the main thread in main()/start()/stop()
    ntrip_config,       \* whether an NTRIP configuration was given
    running,            \* self.running
    ser,                \* self.ser: "none" | "open" | "closed"
    logfile,            \* self.logfile: "none" | "open" | "closed"
    sync_file,          \* self.timesync.sync_file: "none" | "open" | "closed"
    sync_header,        \* the header row of the correlation log has been written
    ntrip,              \* self.ntrip is an NTRIPClient object
    ntrip_ok,           \* what NTRIPClient.connect() returned
    sock,               \* self.ntrip.socket: "none" | "unconnected" | "connected" | "dead" | "closed"
    start_time,         \* stats['start_time'], -1 for None
    final_stats,        \* how many times stop() printed the final statistics
    exit_status,        \* exit status of the logger process, -1 while it runs
    read_pc,            \* read worker: "idle" | "loop" | "read" | "done"
    ntrip_pc,           \* relay worker: "idle" | "loop" | "recv" | "done"
    system_time,        \* read worker's local system_time
    parse_errors,       \* read worker's local parse_errors
    last_status_time,   \* read worker's local last_status_time
    log,                \* bytes of the primary log file
    sync_rows,          \* data rows of the correlation log
    messages,           \* stats['messages']
    bytes_logged,       \* stats['bytes_logged']
    rtcm_bytes,         \* stats['rtcm_bytes']
    last_fix,           \* stats['last_fix_type' .. 'last_height']
    time_offset,        \* stats['time_offset']
    last_timesync_log,  \* self.last_timesync_log
    ser_out,            \* bytes written to the serial device
    \* ---- environment of the logger
    clock,              \* time.time()
    rx,                 \* what the next ubr.read() finds: <<>> or <<event>>
    rx_count,           \* events the receiver has produced
    net,                \* what the next socket.recv() finds: <<>> or <<chunk>>
    net_count,          \* chunks the caster has sent
    frames_read,        \* history: frames ubr.read() returned, in order
    chunks_read,        \* history: non-empty chunks read_corrections() returned
    \* ---- UBXValidator (validate_ubx.py)
    v_pc,               \* position in main()/validate(): "start" | "parse" | "done" | "exited"
    v_status,           \* the file given: "noarg" (no argument) | "missing" | "empty" | "nonempty"
    v_file,             \* history: what the reader has yielded from the file so far
    v_outcome,          \* how validate() ended: "none" | "missing" | "empty" | "parse_error" | "reported"
    v_result,           \* what validate() returned: "none" | "true" | "false"
    vstats,             \* self.stats
    v_exit,             \* exit status of the validator process, -1 while it runs
    v_script,           \* what is left to read of a long log, as runs <<frame, count>>
    v_first,            \* the report of the first validate() once a second one has run
    \* ---- NTRIPClient.connect (gps_logger.py) on its own
    c_pc,               \* "call" before connect() is called, "done" after
    c_in,               \* the client's credentials and what the network does
    c_out,              \* what connect() returned and left in self.socket
    \* ---- the camera recorder (dual_cam_jp2.py)
    rec_stack,          \* the main thread's frames, innermost last: [ctx, pc]
    rec_running,        \* MinimalRecorder.running
    rec_made,           \* the steps of start() that have completed
    rec_teardown,       \* how many times each teardown step of stop() was executed
    rec_signals,        \* SIGINTs delivered so far
    rec_exit            \* how the process ended, "none" while it runs

lvars == <<main_pc, ntrip_config, running, ser, logfile, sync_file, sync_header,
           ntrip, ntrip_ok, sock, start_time, final_stats, exit_status, read_pc, ntrip_pc,
           system_time, parse_errors, last_status_time, log, sync_rows, messages,
           bytes_logged, rtcm_bytes, last_fix, time_offset, last_timesync_log, ser_out,
           clock, rx, rx_count, net, net_count, frames_read, chunks_read>>

vvars == <<v_pc, v_status, v_file, v_outcome, v_result, vstats, v_exit, v_script, v_first>>

cvars == <<c_pc, c_in, c_out>>

rvars == <<rec_stack, rec_running, rec_made, rec_teardown, rec_signals, rec_exit>>

vars == <<lvars, vvars, cvars, rvars>>

\* ------------------------------------------------------------------ frames
\* What ubr.read() can return or do.  kind "frame": raw bytes came back, with a
\* parsed message (parsed) or with None; kind "throw": read() raised while
\* decoding a payload; kind "ioerror": read() raised a transport error.
\* conv: the calendar and nano fields convert to a datetime; secs: that time
\* in seconds since the GPS epoch origin.
NoFix == [fixType |-> 0, carrSoln |-> 0, numSV |-> 0, lat |-> 0, lon |-> 0, height |-> 0]

NavFix1 ==
    [kind |-> "frame", id |-> "NAV-PVT", raw |-> <<181, 98, 1, 7, 11>>, parsed |-> TRUE,
     conv |-> TRUE, secs |-> 604900, hasCarr |-> TRUE,
     fix |-> [fixType |-> 3, carrSoln |-> 2, numSV |-> 8, lat |-> 45, lon |-> 7, height |-> 3000]]

NavBadDate ==
    [kind |-> "frame", id |-> "NAV-PVT", raw |-> <<181, 98, 1, 7, 13>>, parsed |-> TRUE,
     conv |-> FALSE, secs |-> 0, hasCarr |-> TRUE,
     fix |-> [fixType |-> 3, carrSoln |-> 0, numSV |-> 6, lat |-> 47, lon |-> 9, height |-> 1000]]

NavUndecodable ==
    [kind |-> "frame", id |-> "NAV-PVT", raw |-> <<181, 98, 1, 7>>, parsed |-> FALSE,
     conv |-> FALSE, secs |-> 0, hasCarr |-> FALSE, fix |-> NoFix]

Rawx ==
    [kind |-> "frame", id |-> "RXM-RAWX", raw |-> <<181, 98, 2, 21, 14, 15>>, parsed |-> TRUE,
     conv |-> FALSE, secs |-> 0, hasCarr |-> FALSE, fix |-> NoFix]

NavThrow ==
    [kind |-> "throw", id |-> "NAV-PVT", raw |-> <<>>, parsed |-> FALSE,
     conv |-> FALSE, secs |-> 0, hasCarr |-> FALSE, fix |-> NoFix]

IOError ==
    [kind |-> "ioerror", id |-> "", raw |-> <<>>, parsed |-> FALSE,
     conv |-> FALSE, secs |-> 0, hasCarr |-> FALSE, fix |-> NoFix]

Frames == {NavFix1, NavBadDate, NavUndecodable, Rawx}
Faults == {NavThrow, IOError}

\* Correction chunks the caster can send.
Chunks == {<<211, 0>>}

\* ------------------------------------------------- frames of a log file
\* What the UBXReader iterator yields from a log file: a parsed message, or
\* (parsed = FALSE) raw bytes with None.  ts: the calendar time of a NAV-PVT in
\* whole seconds, -1 when datetime(...) raises; sats: numSV of a NAV-PVT,
\* numMeas of a RXM-RAWX.
MsgIds == {"NAV-PVT", "RXM-RAWX", "RXM-SFRBX", "NAV-STATUS", "NAV-SAT"}
FixTypes == 0..5
CarrSolns == 0..2

VNav1 == [id |-> "NAV-PVT", parsed |-> TRUE, ts |-> 100, fixType |-> 3, carrSoln |-> 2, sats |-> 8]
VNav2 == [id |-> "NAV-PVT", parsed |-> TRUE, ts |-> 101, fixType |-> 2, carrSoln |-> 0, sats |-> 4]
VRawx == [id |-> "RXM-RAWX", parsed |-> TRUE, ts |-> -1, fixType |-> 0, carrSoln |-> 0, sats |-> 9]
VSfrbx == [id |-> "RXM-SFRBX", parsed |-> TRUE, ts |-> -1, fixType |-> 0, carrSoln |-> 0, sats |-> 0]
VStatus == [id |-> "NAV-STATUS", parsed |-> TRUE, ts |-> -1, fixType |-> 0, carrSoln |-> 0, sats |-> 0]
VSat == [id |-> "NAV-SAT", parsed |-> TRUE, ts |-> -1, fixType |-> 0, carrSoln |-> 0, sats |-> 0]
VUndecodable == [id |-> "NAV-PVT", parsed |-> FALSE, ts |-> -1, fixType |-> 0, carrSoln |-> 0, sats |-> 0]

VFrames == {VNav1, VNav2, VRawx, VSfrbx, VStatus, VSat}

RawxError == "No RXM-RAWX messages found"
SfrbxError == "No RXM-SFRBX messages found"
NavRateWarning == "NAV-PVT rate"
RawxRateWarning == "RXM-RAWX rate"
LowSatWarning == "Low satellite count"

\* ------------------------------------------------------- pure computations
\* Concatenation of the original bytes of a sequence of frames.
RECURSIVE ConcatRaw(_)
ConcatRaw(fs) == IF fs = <<>> THEN <<>> ELSE Head(fs).raw \o ConcatRaw(Tail(fs))

\* Concatenation of a sequence of byte chunks.
RECURSIVE ConcatChunks(_)
ConcatChunks(cs) == IF cs = <<>> THEN <<>> ELSE Head(cs) \o ConcatChunks(Tail(cs))

\* int(a / b) for b > 0: Python's int() truncates toward zero.
TruncDiv(a, b) == IF a >= 0 THEN a \div b ELSE -((-a) \div b)

\* gps_week = int(delta.total_seconds() / (7 * 24 * 3600))
GpsWeek(secs) == TruncDiv(secs, SecondsPerWeek)

\* gps_tow = delta.total_seconds() % (7 * 24 * 3600): Python's % takes the
\* sign of the divisor, as TLA+'s does.
GpsTow(secs) == secs % SecondsPerWeek

\* The sampling test with the interval taken as one second instead of ten.
TimesyncDueOneSecond(st, last) == st - last >= 10

\* if system_time - self.last_timesync_log >= 10.0
TimesyncDue(st, last) == st - last >= TimesyncInterval

\* The DecodedFix snapshot the read worker stores from a parsed NAV-PVT.
FixOf(f) ==
    [fixType |-> f.fix.fixType,
     carrSoln |-> IF f.hasCarr THEN f.fix.carrSoln ELSE 0,
     numSV |-> f.fix.numSV,
     lat |-> f.fix.lat,
     lon |-> f.fix.lon,
     height |-> f.fix.height \div 1000]

\* TimeSync.log: the row appended to the correlation log.
SyncRow(f, st) ==
    [system_time |-> st, gps_time |-> f.secs, gps_week |-> GpsWeek(f.secs),
     gps_tow |-> GpsTow(f.secs), offset |-> st - f.secs * 10, num_sv |-> f.fix.numSV]

\* The sampler with the stamp of the last sample set before the conversion is
\* tried, so that a fix that fails conversion still restarts the interval.
TimesyncStampsFirst(f, st, rows, off, last, sf) ==
    IF ~(st - last >= TimesyncInterval) \/ sf = "closed"
    THEN [rows |-> rows, off |-> off, last |-> last]
    ELSE IF ~f.conv
    THEN [rows |-> rows, off |-> off, last |-> st]
    ELSE [rows |-> IF sf = "open" THEN Append(rows, SyncRow(f, st)) ELSE rows,
          off |-> st - f.secs * 10,
          last |-> st]

\* The sampler with the stamp of the last sample never advanced.
TimesyncNeverStamps(f, st, rows, off, last, sf) ==
    IF ~(st - last >= TimesyncInterval) \/ ~f.conv \/ sf = "closed"
    THEN [rows |-> rows, off |-> off, last |-> last]
    ELSE [rows |-> IF sf = "open" THEN Append(rows, SyncRow(f, st)) ELSE rows,
          off |-> st - f.secs * 10,
          last |-> last]

\* The time synchronisation block of read_worker (lines 290-321) for a parsed
\* NAV-PVT f read at system time st: the new correlation rows, time offset and
\* last sample time.  datetime(...) raises when the fields do not convert;
\* TimeSync.log raises when the file is closed and writes nothing when there is
\* no writer; the bare except swallows both.
Timesync(f, st, rows, off, last, sf) ==
    IF ~TimesyncDue(st, last) \/ ~f.conv \/ sf = "closed"
    THEN [rows |-> rows, off |-> off, last |-> last]
    ELSE [rows |-> IF sf = "open" THEN Append(rows, SyncRow(f, st)) ELSE rows,
          off |-> st - f.secs * 10,
          last |-> st]

\* A loop whose exception handler leaves the loop instead of retrying.
AfterIterationLeavesOnError(raised) == IF raised THEN "done" ELSE "loop"

\* Where a worker goes after an iteration of its loop, whether the iteration
\* ran to its end or raised an exception: the
\* handlers of read_worker (lines 334-337) and ntrip_worker (lines 241-243)
\* swallow it and the while condition is evaluated again.
AfterIteration(raised) == "loop"

AfterPoll(raised) == "loop"

\* ------------------------------------------------------------------- Init
\* GPSLogger.__init__ and the environment before start().
LoggerInit ==
    /\ main_pc = "start"
    /\ ntrip_config \in BOOLEAN
    /\ running = FALSE
    /\ ser = "none"
    /\ logfile = "none"
    /\ sync_file = "none"
    /\ sync_header = FALSE
    /\ ntrip = FALSE
    /\ ntrip_ok = FALSE
    /\ sock = "none"
    /\ start_time = -1
    /\ final_stats = 0
    /\ exit_status = -1
    /\ read_pc = "idle"
    /\ ntrip_pc = "idle"
    /\ system_time = 0
    /\ parse_errors = 0
    /\ last_status_time = 0
    /\ log = <<>>
    /\ sync_rows = <<>>
    /\ messages = 0
    /\ bytes_logged = 0
    /\ rtcm_bytes = 0
    /\ last_fix = NoFix
    /\ time_offset = 0
    /\ last_timesync_log = 0
    /\ ser_out = <<>>
    /\ clock = StartTime
    /\ rx = <<>>
    /\ rx_count = 0
    /\ net = <<>>
    /\ net_count = 0
    /\ frames_read = <<>>
    /\ chunks_read = <<>>

\* The validator before it is given a file.
EmptyStats ==
    [total_messages |-> 0,
     message_types |-> [i \in MsgIds |-> 0],
     first_timestamp |-> -1,
     last_timestamp |-> -1,
     nav_pvt_count |-> 0,
     rxm_rawx_count |-> 0,
     rxm_sfrbx_count |-> 0,
     nav_status_count |-> 0,
     nav_sat_count |-> 0,
     max_satellites |-> 0,
     fix_types |-> [t \in FixTypes |-> 0],
     carrier_solution_types |-> [c \in CarrSolns |-> 0],
     errors |-> <<>>,
     warnings |-> <<>>]

\* No earlier validation to compare with.
NoReport == [run |-> FALSE, stats |-> EmptyStats, result |-> "none"]

ValidatorIdle ==
    /\ v_pc = "start"
    /\ v_status = "nonempty"
    /\ v_file = <<>>
    /\ v_outcome = "none"
    /\ v_result = "none"
    /\ vstats = EmptyStats
    /\ v_exit = -1
    /\ v_script = <<>>
    /\ v_first = NoReport

\* ------------------------------------------------------- main thread: start
\* GPSLogger.start(), called once by main().  serial_ok: serial.Serial opened;
\* ntrip_res: "ok" | "refused" (TCP connect or send failed) | "badreply" (the
\* reply carried no "200 OK"); log_res: "ok" | "logfail" (the .ubx file did
\* not open) | "syncfail" (the .csv file did not open).
envs == <<clock, rx, rx_count, net, net_count, frames_read, chunks_read>>
rundata == <<system_time, parse_errors, log, sync_rows, messages, bytes_logged,
             rtcm_bytes, last_fix, time_offset, last_timesync_log, ser_out>>
workerdata == <<rundata, last_status_time>>

\* start() going on to connect_ntrip although the serial port did not open.
StartMakesClientRegardless(serial_ok) == ntrip_config

\* start() reaches connect_ntrip only past the return of lines 393-394, and
\* connect_ntrip makes a client only when a configuration was given.
StartMakesClient(serial_ok) == serial_ok /\ ntrip_config

\* start() handing on what connect_ntrip returned as its own result.
StartSucceedsNeedsNtrip(serial_ok, ntrip_res, log_res) ==
    serial_ok /\ log_res = "ok" /\ (ntrip_config => ntrip_res = "ok")

\* start() going on to start the workers although open_logfile failed.
StartSucceedsDespiteLogFailure(serial_ok, ntrip_res, log_res) == serial_ok

\* start() returns True: the serial port and both log files opened; what
\* connect_ntrip returned only prints a line (lines 397-398).
StartSucceeds(serial_ok, ntrip_res, log_res) == serial_ok /\ log_res = "ok"

Start ==
    /\ main_pc = "start"
    /\ \E serial_ok \in BOOLEAN, ntrip_res \in {"ok", "refused", "badreply"},
          log_res \in {"ok", "logfail", "syncfail"} :
        LET has_ntrip == StartMakesClient(serial_ok)
            files_ok  == serial_ok /\ log_res = "ok"
            logs_ok   == StartSucceeds(serial_ok, ntrip_res, log_res)
        IN /\ ser' = IF serial_ok THEN "open" ELSE "none"
           /\ ntrip' = has_ntrip
           /\ ntrip_ok' = (has_ntrip /\ ntrip_res = "ok")
           /\ sock' = IF ~has_ntrip THEN "none"
                      ELSE IF ntrip_res = "refused" THEN "unconnected" ELSE "connected"
           /\ logfile' = IF serial_ok /\ log_res # "logfail" THEN "open" ELSE "none"
           /\ sync_file' = IF files_ok THEN "open" ELSE "none"
           /\ sync_header' = files_ok
           /\ running' = logs_ok
           /\ start_time' = IF logs_ok THEN clock ELSE -1
           /\ ntrip_pc' = IF logs_ok /\ has_ntrip THEN "loop" ELSE "idle"
           /\ read_pc' = IF logs_ok THEN "loop" ELSE "idle"
           /\ main_pc' = IF logs_ok THEN "running" ELSE "stop"
           /\ last_status_time' = IF logs_ok THEN clock ELSE last_status_time
    /\ UNCHANGED <<ntrip_config, final_stats, exit_status, rundata, envs>>
    /\ UNCHANGED <<vvars, cvars, rvars>>

\* main(): the KeyboardInterrupt that ends the wait loop.
Interrupt ==
    /\ main_pc = "running"
    /\ main_pc' = "stop"
    /\ UNCHANGED <<ntrip_config, running, ser, logfile, sync_file, sync_header, ntrip,
                   ntrip_ok, sock, start_time, final_stats, exit_status, read_pc, ntrip_pc,
                   workerdata, envs>>
    /\ UNCHANGED <<vvars, cvars, rvars>>

\* -------------------------------------------------------- main thread: stop
\* main(): whether start() returned True or False, stop() is called and main()
\* returns; the interpreter then exits with status 0.
ExitStatus(started) == 0

mainonly(pc) ==
    /\ main_pc' = pc
    /\ UNCHANGED <<ntrip_config, ntrip, ntrip_ok, start_time, read_pc, ntrip_pc,
                   sync_header, workerdata, envs>>

\* self.running = False
StopSignal ==
    /\ main_pc = "stop"
    /\ running' = FALSE
    /\ mainonly("join_read")
    /\ UNCHANGED <<ser, logfile, sync_file, sock, final_stats, exit_status>>
    /\ UNCHANGED <<vvars, cvars, rvars>>

\* self.read_thread.join(timeout=2): the thread has ended (or was never started)
StopJoinRead ==
    /\ main_pc = "join_read"
    /\ read_pc \in {"idle", "done"}
    /\ mainonly("join_ntrip")
    /\ UNCHANGED <<running, ser, logfile, sync_file, sock, final_stats, exit_status>>
    /\ UNCHANGED <<vvars, cvars, rvars>>

\* self.read_thread.join(timeout=2): the timeout expired with the thread alive.
\* Two seconds pass only while the worker is inside a blocking call; every
\* other step of an iteration, its sleeps of 0.1 s included, is shorter.
StopJoinReadTimeout ==
    /\ main_pc = "join_read"
    /\ read_pc = "read"
    /\ mainonly("join_ntrip")
    /\ UNCHANGED <<running, ser, logfile, sync_file, sock, final_stats, exit_status>>
    /\ UNCHANGED <<vvars, cvars, rvars>>

\* self.ntrip_thread.join(timeout=2): the thread has ended (or was never started)
StopJoinNtrip ==
    /\ main_pc = "join_ntrip"
    /\ ntrip_pc \in {"idle", "done"}
    /\ mainonly("close_log")
    /\ UNCHANGED <<running, ser, logfile, sync_file, sock, final_stats, exit_status>>
    /\ UNCHANGED <<vvars, cvars, rvars>>

\* self.ntrip_thread.join(timeout=2): the timeout expired with the thread
\* alive, inside socket.recv (the sleeps of 0.1 s and 1 s are shorter)
StopJoinNtripTimeout ==
    /\ main_pc = "join_ntrip"
    /\ ntrip_pc = "recv"
    /\ mainonly("close_log")
    /\ UNCHANGED <<running, ser, logfile, sync_file, sock, final_stats, exit_status>>
    /\ UNCHANGED <<vvars, cvars, rvars>>

\* if self.logfile: self.logfile.close()
StopCloseLog ==
    /\ main_pc = "close_log"
    /\ logfile' = IF logfile = "none" THEN "none" ELSE "closed"
    /\ mainonly("close_sync")
    /\ UNCHANGED <<running, ser, sync_file, sock, final_stats, exit_status>>
    /\ UNCHANGED <<vvars, cvars, rvars>>

\* A stop() that closes the serial device where the correlation log is due.
StopCloseSerialEarly ==
    /\ main_pc = "close_sync"
    /\ ser' = IF ser = "none" THEN "none" ELSE "closed"
    /\ mainonly("close_ntrip")
    /\ UNCHANGED <<running, logfile, sync_file, sock, final_stats, exit_status>>
    /\ UNCHANGED <<vvars, cvars, rvars>>

\* self.timesync.close()
StopCloseSync ==
    /\ main_pc = "close_sync"
    /\ sync_file' = IF sync_file = "none" THEN "none" ELSE "closed"
    /\ mainonly("close_ntrip")
    /\ UNCHANGED <<running, ser, logfile, sock, final_stats, exit_status>>
    /\ UNCHANGED <<vvars, cvars, rvars>>

\* if self.ntrip: self.ntrip.close()
StopCloseNtrip ==
    /\ main_pc = "close_ntrip"
    /\ sock' = IF ntrip /\ sock # "none" THEN "closed" ELSE sock
    /\ mainonly("close_ser")
    /\ UNCHANGED <<running, ser, logfile, sync_file, final_stats, exit_status>>
    /\ UNCHANGED <<vvars, cvars, rvars>>

\* if self.ser: self.ser.close()
StopCloseSer ==
    /\ main_pc = "close_ser"
    /\ ser' = IF ser = "none" THEN "none" ELSE "closed"
    /\ mainonly("stats")
    /\ UNCHANGED <<running, logfile, sync_file, sock, final_stats, exit_status>>
    /\ UNCHANGED <<vvars, cvars, rvars>>

\* if self.stats['start_time']: print the final statistics
StopStats ==
    /\ main_pc = "stats"
    /\ final_stats' = IF start_time # -1 THEN final_stats + 1 ELSE final_stats
    /\ exit_status' = ExitStatus(start_time # -1)
    /\ mainonly("stopped")
    /\ UNCHANGED <<running, ser, logfile, sync_file, sock>>
    /\ UNCHANGED <<vvars, cvars, rvars>>

\* ---------------------------------------------------------- read/log worker
mainstate == <<main_pc, ntrip_config, running, ser, logfile, sync_file, sync_header,
               ntrip, ntrip_ok, sock, start_time, final_stats, exit_status>>

\* while self.running: system_time = time.time(); ... self.ubr.read() is called.
\* The clock is read here and nowhere else while the workers run, so the time
\* that has passed since the last reading is chosen at the reading.
RW_Loop ==
    /\ read_pc = "loop"
    /\ read_pc' = IF running THEN "read" ELSE "done"
    /\ \E d \in ClockSteps :
        /\ d = 0 \/ clock + d <= StartTime + MaxAdvance
        /\ clock' = IF running THEN clock + d ELSE clock
    /\ system_time' = IF running THEN clock' ELSE system_time
    /\ UNCHANGED <<mainstate, ntrip_pc, parse_errors, last_status_time, log, sync_rows,
                   messages, bytes_logged, rtcm_bytes, last_fix, time_offset,
                   last_timesync_log, ser_out, rx, rx_count, net, net_count,
                   frames_read, chunks_read>>
    /\ UNCHANGED <<vvars, cvars, rvars>>

\* if time.time() - last_status_time >= 2.0: self.print_status()
StatusDue(now, last) == now - last >= StatusInterval

\* The counters stepped before the write to the log is tried.
CountsBeforeWrite(gotraw, written) == gotraw

\* The counters are stepped on the lines after logfile.write (275-276), so
\* only when a frame came back and the write returned.
Counts(gotraw, written) == written

\* self.ubr.read() returns or raises, and the rest of the iteration runs:
\* the log write, the counters, the snapshot, the time synchronisation block,
\* the parse-error count, the status line; every exception ends in the outer
\* except.
RW_Read ==
    /\ read_pc = "read"
    /\ LET raised  == ser # "open" \/ (rx # <<>> /\ Head(rx).kind # "frame")
           gotraw  == ~raised /\ rx # <<>>
           f       == IF rx # <<>> THEN Head(rx) ELSE IOError
           written == gotraw /\ logfile = "open"
           isnav   == written /\ f.parsed /\ f.id = "NAV-PVT"
           ts      == Timesync(f, system_time, sync_rows, time_offset,
                               last_timesync_log, sync_file)
       IN /\ rx' = IF ser = "open" THEN <<>> ELSE rx
          /\ frames_read' = IF gotraw THEN Append(frames_read, f) ELSE frames_read
          /\ log' = IF written THEN log \o f.raw ELSE log
          /\ bytes_logged' = IF Counts(gotraw, written) THEN bytes_logged + Len(f.raw)
                             ELSE bytes_logged
          /\ messages' = IF Counts(gotraw, written) THEN messages + 1 ELSE messages
          /\ last_fix' = IF isnav THEN FixOf(f) ELSE last_fix
          /\ sync_rows' = IF isnav THEN ts.rows ELSE sync_rows
          /\ time_offset' = IF isnav THEN ts.off ELSE time_offset
          /\ last_timesync_log' = IF isnav THEN ts.last ELSE last_timesync_log
          /\ parse_errors' = IF written /\ ~f.parsed THEN parse_errors + 1 ELSE parse_errors
          /\ last_status_time' = IF written /\ StatusDue(clock, last_status_time)
                                 THEN clock ELSE last_status_time
    /\ read_pc' = AfterIteration(ser # "open" \/ (rx # <<>> /\ Head(rx).kind # "frame")
                                  \/ (rx # <<>> /\ logfile # "open"))
    /\ UNCHANGED <<mainstate, ntrip_pc, system_time, rtcm_bytes, ser_out,
                   clock, rx_count, net, net_count, chunks_read>>
    /\ UNCHANGED <<vvars, cvars, rvars>>

\* ------------------------------------------------------------ relay worker
\* while self.running and self.ntrip: self.ntrip.read_corrections() is called.
\* On a socket that is not connected, was closed, or whose peer has gone,
\* recv returns at once with nothing or raises, and the worker sleeps 0.1 s.
NW_Loop ==
    /\ ntrip_pc = "loop"
    /\ ntrip_pc' = IF running /\ ntrip
                   THEN (IF sock = "connected" THEN "recv" ELSE "loop")
                   ELSE "done"
    /\ UNCHANGED <<mainstate, read_pc, workerdata, envs>>
    /\ UNCHANGED <<vvars, cvars, rvars>>

\* A relay worker that adds the relayed bytes to the counter of logged bytes.
NW_RecvCountsAsLogged ==
    /\ ntrip_pc = "recv"
    /\ net # <<>> \/ sock = "dead"
    /\ LET got     == net # <<>>
           chunk   == IF got THEN Head(net) ELSE <<>>
           written == got /\ ser = "open"
       IN /\ net' = <<>>
          /\ chunks_read' = IF got THEN Append(chunks_read, chunk) ELSE chunks_read
          /\ ser_out' = IF written THEN ser_out \o chunk ELSE ser_out
          /\ bytes_logged' = IF written THEN bytes_logged + Len(chunk) ELSE bytes_logged
    /\ ntrip_pc' = "loop"
    /\ UNCHANGED <<mainstate, read_pc, system_time, parse_errors, last_status_time, log,
                   sync_rows, messages, rtcm_bytes, last_fix, time_offset, last_timesync_log,
                   clock, rx, rx_count, net_count, frames_read>>
    /\ UNCHANGED <<vvars, cvars, rvars>>

\* socket.recv(1024) returns (the socket has no timeout: it returns only when
\* there is data or the peer has gone), and the rest of the iteration runs:
\* the write to the serial device, the flush and the byte counter.
NW_Recv ==
    /\ ntrip_pc = "recv"
    /\ net # <<>> \/ sock = "dead"
    /\ LET got     == net # <<>>
           chunk   == IF got THEN Head(net) ELSE <<>>
           written == got /\ ser = "open"
       IN /\ net' = <<>>
          /\ chunks_read' = IF got THEN Append(chunks_read, chunk) ELSE chunks_read
          /\ ser_out' = IF written THEN ser_out \o chunk ELSE ser_out
          /\ rtcm_bytes' = IF written THEN rtcm_bytes + Len(chunk) ELSE rtcm_bytes
    /\ ntrip_pc' = AfterPoll(net # <<>> /\ ser # "open")
    /\ UNCHANGED <<mainstate, read_pc, system_time, parse_errors, last_status_time, log,
                   sync_rows, messages, bytes_logged, last_fix, time_offset, last_timesync_log,
                   clock, rx, rx_count, net_count, frames_read>>
    /\ UNCHANGED <<vvars, cvars, rvars>>

\* A recv in flight when stop() closes the socket: the platform may fail it.
NW_RecvAborted ==
    /\ ntrip_pc = "recv"
    /\ sock = "closed"
    /\ net = <<>>
    /\ ntrip_pc' = "loop"
    /\ UNCHANGED <<mainstate, read_pc, workerdata, envs>>
    /\ UNCHANGED <<vvars, cvars, rvars>>

\* ------------------------------------------------------------- environment
\* The receiver produces a frame, or the next read will raise.
ReceiverSends ==
    /\ ser = "open"
    /\ rx = <<>>
    /\ rx_count < (IF ntrip_config THEN MaxRelayFrames ELSE MaxFrames)
    /\ \E f \in Frames \cup Faults : rx' = <<f>>
    /\ rx_count' = rx_count + 1
    /\ UNCHANGED <<mainstate, read_pc, ntrip_pc, workerdata, clock, net, net_count,
                   frames_read, chunks_read>>
    /\ UNCHANGED <<vvars, cvars, rvars>>

\* The caster sends a chunk of correction data.
CasterSends ==
    /\ sock = "connected"
    /\ net = <<>>
    /\ net_count < MaxChunks
    /\ \E c \in Chunks : net' = <<c>>
    /\ net_count' = net_count + 1
    /\ UNCHANGED <<mainstate, read_pc, ntrip_pc, workerdata, clock, rx, rx_count,
                   frames_read, chunks_read>>
    /\ UNCHANGED <<vvars, cvars, rvars>>

\* The caster closes the connection, or the connection is lost.
CasterCloses ==
    /\ sock = "connected"
    /\ sock' = "dead"
    /\ UNCHANGED <<main_pc, ntrip_config, running, ser, logfile, sync_file, sync_header,
                   ntrip, ntrip_ok, start_time, final_stats, exit_status, read_pc, ntrip_pc,
                   workerdata, envs>>
    /\ UNCHANGED <<vvars, cvars, rvars>>

\* ----------------------------------------------------------- specification
MainStep ==
    \/ Start
    \/ StopSignal
    \/ StopJoinRead
    \/ StopJoinReadTimeout
    \/ StopJoinNtrip
    \/ StopJoinNtripTimeout
    \/ StopCloseLog
    \/ StopCloseSync
    \/ StopCloseNtrip
    \/ StopCloseSer
    \/ StopStats

ReadWorker == RW_Loop \/ RW_Read

NtripWorker == NW_Loop \/ NW_Recv

Environment ==
    \/ Interrupt
    \/ ReceiverSends
    \/ CasterSends
    \/ CasterCloses
    \/ NW_RecvAborted

Next == MainStep \/ ReadWorker \/ NtripWorker \/ Environment

\* The steps of MinimalRecorder.stop() that tear the recording down, in order
\* (dual_cam_jp2.py lines 327-328, 331-332, 335-336, 360-361).
TeardownSteps == <<"stop_rec", "stop_cams", "close_ts", "close_cams">>

\* The camera recorder is not under study: no process.
RecorderIdle ==
    /\ rec_stack = <<>>
    /\ rec_running = FALSE
    /\ rec_made = {}
    /\ rec_teardown = [t \in {TeardownSteps[i] : i \in 1..Len(TeardownSteps)} |-> 0]
    /\ rec_signals = 0
    /\ rec_exit = "idle"

\* connect() is not under study: nothing called, nothing returned.
ConnectIdle ==
    /\ c_pc = "idle"
    /\ c_in = <<>>
    /\ c_out = <<>>

Init == LoggerInit /\ ValidatorIdle /\ ConnectIdle /\ RecorderIdle

Spec == Init /\ [][Next]_vars

\* The threads are scheduled fairly and stop() runs to its end; the
\* environment (the receiver, the caster, the interrupt, the clock) owes nothing.
FairSpec ==
    /\ Spec
    /\ WF_vars(MainStep)
    /\ WF_vars(ReadWorker)
    /\ WF_vars(NtripWorker)

\* ------------------------------------------------------------ UBXValidator
\* _process_message without the tracking of satellite counts.
ProcessMessageTracksNoSatellites(st, f) ==
    LET st1 == [st EXCEPT !.message_types[f.id] = @ + 1]
    IN CASE f.id = "NAV-PVT" ->
              [st1 EXCEPT !.nav_pvt_count = @ + 1,
                          !.first_timestamp = IF f.ts # -1 /\ @ = -1 THEN f.ts ELSE @,
                          !.last_timestamp = IF f.ts # -1 THEN f.ts ELSE @,
                          !.fix_types[f.fixType] = @ + 1,
                          !.carrier_solution_types[f.carrSoln] = @ + 1]
         [] f.id = "RXM-RAWX" -> [st1 EXCEPT !.rxm_rawx_count = @ + 1]
         [] f.id = "RXM-SFRBX" -> [st1 EXCEPT !.rxm_sfrbx_count = @ + 1]
         [] f.id = "NAV-STATUS" -> [st1 EXCEPT !.nav_status_count = @ + 1]
         [] f.id = "NAV-SAT" -> [st1 EXCEPT !.nav_sat_count = @ + 1]
         [] OTHER -> st1

\* UBXValidator._process_message for a parsed message f.
ProcessMessage(st, f) ==
    LET st1 == [st EXCEPT !.message_types[f.id] = @ + 1]
        more(n) == IF f.sats > n THEN f.sats ELSE n
    IN CASE f.id = "NAV-PVT" ->
              [st1 EXCEPT !.nav_pvt_count = @ + 1,
                          !.first_timestamp = IF f.ts # -1 /\ @ = -1 THEN f.ts ELSE @,
                          !.last_timestamp = IF f.ts # -1 THEN f.ts ELSE @,
                          !.fix_types[f.fixType] = @ + 1,
                          !.carrier_solution_types[f.carrSoln] = @ + 1,
                          !.max_satellites = more(@)]
         [] f.id = "RXM-RAWX" ->
              [st1 EXCEPT !.rxm_rawx_count = @ + 1, !.max_satellites = more(@)]
         [] f.id = "RXM-SFRBX" -> [st1 EXCEPT !.rxm_sfrbx_count = @ + 1]
         [] f.id = "NAV-STATUS" -> [st1 EXCEPT !.nav_status_count = @ + 1]
         [] f.id = "NAV-SAT" -> [st1 EXCEPT !.nav_sat_count = @ + 1]
         [] OTHER -> st1

\* The analysis with the ephemeris check reading the raw-measurement counter.
AnalyzeOneCounter(st) ==
    LET e1 == IF st.rxm_rawx_count = 0 THEN <<RawxError>> ELSE <<>>
        e2 == IF st.rxm_rawx_count = 0 THEN <<SfrbxError>> ELSE <<>>
    IN [st EXCEPT !.errors = @ \o e1 \o e2]

\* The analysis warning of a rate at the limit as well as of one below it.
AnalyzeRateInclusive(st) ==
    LET e1 == IF st.rxm_rawx_count = 0 THEN <<RawxError>> ELSE <<>>
        e2 == IF st.rxm_sfrbx_count = 0 THEN <<SfrbxError>> ELSE <<>>
        timed == st.first_timestamp # -1 /\ st.last_timestamp # -1
        duration == st.last_timestamp - st.first_timestamp
        slow(n) == timed /\ duration > 0 /\ 2 * n <= RateLimitTimes2 * duration
        w1 == IF slow(st.nav_pvt_count) THEN <<NavRateWarning>> ELSE <<>>
        w2 == IF slow(st.rxm_rawx_count) THEN <<RawxRateWarning>> ELSE <<>>
        w3 == IF st.max_satellites < MinSatellites THEN <<LowSatWarning>> ELSE <<>>
    IN [st EXCEPT !.errors = @ \o e1 \o e2, !.warnings = @ \o w1 \o w2 \o w3]

\* UBXValidator._analyze: count / duration < 9.5 is 2 * count < 19 * duration.
Analyze(st) ==
    LET e1 == IF st.rxm_rawx_count = 0 THEN <<RawxError>> ELSE <<>>
        e2 == IF st.rxm_sfrbx_count = 0 THEN <<SfrbxError>> ELSE <<>>
        timed == st.first_timestamp # -1 /\ st.last_timestamp # -1
        duration == st.last_timestamp - st.first_timestamp
        slow(n) == timed /\ duration > 0 /\ 2 * n < RateLimitTimes2 * duration
        w1 == IF slow(st.nav_pvt_count) THEN <<NavRateWarning>> ELSE <<>>
        w2 == IF slow(st.rxm_rawx_count) THEN <<RawxRateWarning>> ELSE <<>>
        w3 == IF st.max_satellites < MinSatellites THEN <<LowSatWarning>> ELSE <<>>
    IN [st EXCEPT !.errors = @ \o e1 \o e2, !.warnings = @ \o w1 \o w2 \o w3]

\* A validator as main() of validate_ubx.py makes it: constructed once for one
\* file and asked to validate once.
ValidatorInit ==
    /\ v_pc = "start"
    /\ v_status \in {"noarg", "missing", "empty", "nonempty"}
    /\ v_file = <<>>
    /\ v_outcome = "none"
    /\ v_result = "none"
    /\ vstats = EmptyStats
    /\ v_exit = -1
    /\ v_script = <<>>
    /\ v_first = NoReport

vrest == <<v_exit, v_script, v_first>>

\* main(): no file argument; the usage text and sys.exit(1) (lines 317-320)
V_Usage ==
    /\ v_pc = "start"
    /\ v_status = "noarg"
    /\ v_pc' = "exited"
    /\ v_exit' = 1
    /\ UNCHANGED <<v_status, v_file, v_outcome, v_result, vstats, v_script, v_first>>
    /\ UNCHANGED <<lvars, cvars, rvars>>

\* validate() without the test of the file's size.
V_OpenSkipsSizeTest ==
    /\ v_pc = "start"
    /\ v_status # "noarg"
    /\ v_pc' = IF v_status # "missing" THEN "parse" ELSE "done"
    /\ v_outcome' = IF v_status # "missing" THEN "none" ELSE v_status
    /\ v_result' = IF v_status # "missing" THEN "none" ELSE "false"
    /\ UNCHANGED <<v_status, v_file, vstats>>
    /\ UNCHANGED vrest
    /\ UNCHANGED <<lvars, cvars, rvars>>

\* validate(): the checks of existence and size (lines 42-53)
V_Open ==
    /\ v_pc = "start"
    /\ v_status # "noarg"
    /\ v_pc' = IF v_status = "nonempty" THEN "parse" ELSE "done"
    /\ v_outcome' = IF v_status = "nonempty" THEN "none" ELSE v_status
    /\ v_result' = IF v_status = "nonempty" THEN "none" ELSE "false"
    /\ UNCHANGED <<v_status, v_file, vstats>>
    /\ UNCHANGED vrest
    /\ UNCHANGED <<lvars, cvars, rvars>>

\* validate(): the reader yields a parsed message, which is counted and processed
V_Frame ==
    /\ v_pc = "parse"
    /\ Len(v_file) < MaxFileLen
    /\ \E f \in VFrames :
        /\ v_file' = Append(v_file, f)
        /\ vstats' = ProcessMessage([vstats EXCEPT !.total_messages = @ + 1], f)
    /\ UNCHANGED <<v_pc, v_status, v_outcome, v_result>>
    /\ UNCHANGED vrest
    /\ UNCHANGED <<lvars, cvars, rvars>>

\* validate(): the reader yields raw bytes with None; msg.identity raises
\* AttributeError in _process_message and the except of validate() returns False
V_Undecodable ==
    /\ v_pc = "parse"
    /\ Len(v_file) < MaxFileLen
    /\ v_file' = Append(v_file, VUndecodable)
    /\ vstats' = [vstats EXCEPT !.total_messages = @ + 1]
    /\ v_pc' = "done"
    /\ v_outcome' = "parse_error"
    /\ v_result' = "false"
    /\ UNCHANGED v_status
    /\ UNCHANGED vrest
    /\ UNCHANGED <<lvars, cvars, rvars>>

\* validate(): the reader itself raises; the except of validate() returns False
V_ReaderError ==
    /\ v_pc = "parse"
    /\ v_pc' = "done"
    /\ v_outcome' = "parse_error"
    /\ v_result' = "false"
    /\ UNCHANGED <<v_status, v_file, vstats>>
    /\ UNCHANGED vrest
    /\ UNCHANGED <<lvars, cvars, rvars>>

\* validate(): the file ends; _analyze, _print_report, and the verdict (line 82)
V_End ==
    /\ v_pc = "parse"
    /\ vstats' = Analyze(vstats)
    /\ v_pc' = "done"
    /\ v_outcome' = "reported"
    /\ v_result' = IF vstats'.errors = <<>> THEN "true" ELSE "false"
    /\ UNCHANGED <<v_status, v_file>>
    /\ UNCHANGED vrest
    /\ UNCHANGED <<lvars, cvars, rvars>>

\* A main() that ends without handing the verdict to sys.exit.
ExitCodeIgnoresVerdict(success) == 0

\* sys.exit(0 if success else 1)
ExitCode(success) == IF success THEN 0 ELSE 1

\* main(): the process exits with the verdict of validate() (line 327)
V_Exit ==
    /\ v_pc = "done"
    /\ v_pc' = "exited"
    /\ v_exit' = ExitCode(v_result = "true")
    /\ UNCHANGED <<v_status, v_file, v_outcome, v_result, vstats, v_script, v_first>>
    /\ UNCHANGED <<lvars, cvars, rvars>>

NextValidator ==
    V_Usage \/ V_Open \/ V_Frame \/ V_Undecodable \/ V_ReaderError \/ V_End \/ V_Exit

InitValidator == LoggerInit /\ ntrip_config = FALSE /\ ValidatorInit /\ ConnectIdle /\ RecorderIdle

SpecValidator == InitValidator /\ [][NextValidator]_vars

\* ------------------------------------------------- validating once more
\* The loop of validate() (lines 61-63) over a whole file, from statistics st:
\* every frame is counted, a parsed one is processed, and the first frame
\* that came with None ends the loop by the AttributeError of line 86.
RECURSIVE ReadAll(_, _)
ReadAll(st, file) ==
    IF file = <<>> THEN st
    ELSE LET st1 == [st EXCEPT !.total_messages = @ + 1]
         IN IF Head(file).parsed
            THEN ReadAll(ProcessMessage(st1, Head(file)), Tail(file))
            ELSE st1

\* validate() run from statistics st on the file that the finished validation
\* read: the file is unchanged, so it is missing, empty, unreadable from the
\* same frame on, or read to its end and analysed, as it was the first time.
ValidateAgain(st) ==
    IF v_outcome = "reported" THEN Analyze(ReadAll(st, v_file))
    ELSE IF v_outcome = "parse_error" THEN ReadAll(st, v_file)
    ELSE st

\* validate() is called a second time on the same UBXValidator: self.stats is
\* set up in __init__ only (lines 18-34), so the second run starts from the
\* statistics the first one left.
V_Again ==
    /\ v_pc = "done"
    /\ ~v_first.run
    /\ v_first' = [run |-> TRUE, stats |-> vstats, result |-> v_result]
    /\ vstats' = ValidateAgain(vstats)
    /\ v_result' = IF v_outcome = "reported" /\ vstats'.errors = <<>> THEN "true" ELSE "false"
    /\ UNCHANGED <<v_pc, v_status, v_file, v_outcome, v_exit, v_script>>
    /\ UNCHANGED <<lvars, cvars, rvars>>

\* The file is validated a second time by a new UBXValidator, as a second run
\* of main() does.
V_Fresh ==
    /\ v_pc = "done"
    /\ ~v_first.run
    /\ v_first' = [run |-> TRUE, stats |-> vstats, result |-> v_result]
    /\ vstats' = ValidateAgain(EmptyStats)
    /\ v_result' = IF v_outcome = "reported" /\ vstats'.errors = <<>> THEN "true" ELSE "false"
    /\ UNCHANGED <<v_pc, v_status, v_file, v_outcome, v_exit, v_script>>
    /\ UNCHANGED <<lvars, cvars, rvars>>

NextRevalidate ==
    V_Open \/ V_Frame \/ V_Undecodable \/ V_ReaderError \/ V_End \/ V_Again \/ V_Fresh

InitRevalidate == InitValidator /\ v_status # "noarg"

SpecRevalidate == InitRevalidate /\ [][NextRevalidate]_vars

\* ------------------------------------------------ validator on long logs
\* A log of nav navigation frames, the first stamped 100 and the last
\* 100 + secs, with rawx raw-measurement and sfrbx ephemeris frames between
\* them; every count of satellites and of measurements is sats.
LongLog(nav, rawx, sfrbx, secs, sats) ==
    << [f |-> [VNav1 EXCEPT !.ts = 100, !.sats = sats], n |-> nav - 1],
       [f |-> [VRawx EXCEPT !.sats = sats], n |-> rawx],
       [f |-> VSfrbx, n |-> sfrbx],
       [f |-> [VNav1 EXCEPT !.ts = 100 + secs, !.sats = sats], n |-> 1] >>

\* Logs of 100 s (and of no duration) at, just under and well under 9.5
\* frames a second of either critical type.
LongLogs ==
    { LongLog(nav, rawx, 5, secs, 8) :
        nav \in {949, 1000}, rawx \in {700, 950, 1000}, secs \in {0, 100} }

\* The k-th frame (from 1) the reader yields from a log given as runs.
RECURSIVE FrameAt(_, _)
FrameAt(runs, k) ==
    IF k <= Head(runs).n THEN Head(runs).f ELSE FrameAt(Tail(runs), k - Head(runs).n)

RECURSIVE LogLen(_)
LogLen(runs) == IF runs = <<>> THEN 0 ELSE Head(runs).n + LogLen(Tail(runs))

ReplayInit ==
    /\ v_pc = "start"
    /\ v_status = "nonempty"
    /\ v_file = <<>>
    /\ v_outcome = "none"
    /\ v_result = "none"
    /\ vstats = EmptyStats
    /\ v_exit = -1
    /\ v_script \in LongLogs
    /\ v_first = NoReport

\* validate(): the reader yields the next frame of the log, which is counted
\* and processed (lines 61-63); total_messages is also the reader's position.
V_ReplayFrame ==
    /\ v_pc = "parse"
    /\ vstats.total_messages < LogLen(v_script)
    /\ vstats' = ProcessMessage([vstats EXCEPT !.total_messages = @ + 1],
                                FrameAt(v_script, vstats.total_messages + 1))
    /\ UNCHANGED <<v_pc, v_status, v_file, v_outcome, v_result>>
    /\ UNCHANGED vrest
    /\ UNCHANGED <<lvars, cvars, rvars>>

\* validate(): the reader is at the end of the log
V_ReplayEnd == V_End /\ vstats.total_messages = LogLen(v_script)

NextReplay == V_Open \/ V_ReplayFrame \/ V_ReplayEnd \/ V_Exit

InitReplay == LoggerInit /\ ntrip_config = FALSE /\ ReplayInit /\ ConnectIdle /\ RecorderIdle

SpecReplay == InitReplay /\ [][NextReplay]_vars

\* A worker that was never started or has left its loop.
Exited(pc) == pc \in {"idle", "done"}

\* ------------------------------------------- sampler scenario: 10 Hz fixes
\* A run of the logger without NTRIP in which everything opens, a valid
\* navigation fix arrives every 100 ms (one tick) for 10.5 s (105 fixes), and
\* the wall clock moves with the arrivals.
SteadyStart == Start /\ running'

SteadyFix ==
    /\ read_pc \in {"loop", "read"}
    /\ rx = <<>>
    /\ rx_count < 105
    /\ rx' = <<NavFix1>>
    /\ rx_count' = rx_count + 1
    /\ clock' = clock + 1
    /\ UNCHANGED <<mainstate, read_pc, ntrip_pc, workerdata, net, net_count,
                   frames_read, chunks_read>>
    /\ UNCHANGED <<vvars, cvars, rvars>>

SteadyLoop == RW_Loop /\ clock' = clock

NextSteady == SteadyStart \/ SteadyFix \/ SteadyLoop \/ RW_Read

InitSteady == Init /\ ntrip_config = FALSE

SpecSteady == InitSteady /\ [][NextSteady]_vars

\* ------------------------------------- sampler scenario: calendar times
\* The times a NAV-PVT's calendar fields can stand for, in seconds since
\* 1980-01-06 00:00:00 UTC: datetime() converts any year from 1 to 9999, so
\* times before the origin convert as well as times after it.
FixTimes ==
    {-SecondsPerWeek - 1, -SecondsPerWeek, -SecondsPerWeek + 1, -1, 0, 1,
     SecondsPerWeek - 1, SecondsPerWeek, SecondsPerWeek + 1, 2 * SecondsPerWeek + 100}

\* A run of the logger without NTRIP in which everything opens and valid
\* navigation fixes arrive ten seconds apart, each with a time of FixTimes.
SamplerFix ==
    /\ read_pc \in {"loop", "read"}
    /\ rx = <<>>
    /\ rx_count < MaxSamples
    /\ \E s \in FixTimes : rx' = <<[NavFix1 EXCEPT !.secs = s]>>
    /\ rx_count' = rx_count + 1
    /\ clock' = clock + TimesyncInterval
    /\ UNCHANGED <<mainstate, read_pc, ntrip_pc, workerdata, net, net_count,
                   frames_read, chunks_read>>
    /\ UNCHANGED <<vvars, cvars, rvars>>

NextSampler == SteadyStart \/ SamplerFix \/ SteadyLoop \/ RW_Read

SpecSampler == InitSteady /\ [][NextSampler]_vars

\* --------------------------------------- reuse scenario: start() and stop()
\* called again on the same logger, without NTRIP.  start() (lines 386-422)
\* and stop() (lines 424-464) test nothing about the state the logger is in.
\*
\* start() on a logger whose stop() has completed and whose worker has ended:
\* the serial device is opened anew, open(..., 'wb') and open(..., 'w')
\* truncate the two logs of the first run (the file names are fixed in
\* __init__), and a new read worker is started.  The counters of self.stats
\* are not reset; start_time is overwritten when the start succeeds and keeps
\* its old value when it does not.
StartAgain ==
    /\ main_pc = "stopped"
    /\ Exited(read_pc) /\ Exited(ntrip_pc)
    /\ final_stats < MaxReports
    /\ \E serial_ok \in BOOLEAN, ntrip_res \in {"ok", "refused", "badreply"},
          log_res \in {"ok", "logfail", "syncfail"} :
        LET has_ntrip == StartMakesClient(serial_ok)
            log_open  == serial_ok /\ log_res # "logfail"
            files_ok  == serial_ok /\ log_res = "ok"
            logs_ok   == StartSucceeds(serial_ok, ntrip_res, log_res)
        IN /\ ser' = IF serial_ok THEN "open" ELSE ser
           /\ ntrip' = (ntrip \/ has_ntrip)
           /\ ntrip_ok' = (has_ntrip /\ ntrip_res = "ok")
           /\ sock' = IF ~has_ntrip THEN sock
                      ELSE IF ntrip_res = "refused" THEN "unconnected" ELSE "connected"
           /\ logfile' = IF log_open THEN "open" ELSE logfile
           /\ log' = IF log_open THEN <<>> ELSE log
           /\ sync_file' = IF files_ok THEN "open" ELSE sync_file
           /\ sync_header' = (sync_header \/ files_ok)
           /\ sync_rows' = IF files_ok THEN <<>> ELSE sync_rows
           /\ running' = logs_ok
           /\ start_time' = IF logs_ok THEN clock ELSE start_time
           /\ ntrip_pc' = IF logs_ok /\ (ntrip \/ has_ntrip) THEN "loop" ELSE ntrip_pc
           /\ read_pc' = IF logs_ok THEN "loop" ELSE read_pc
           /\ main_pc' = IF logs_ok THEN "running" ELSE "stop"
           /\ last_status_time' = IF logs_ok THEN clock ELSE last_status_time
    /\ UNCHANGED <<ntrip_config, final_stats, exit_status, envs>>
    /\ UNCHANGED <<system_time, parse_errors, messages, bytes_logged, rtcm_bytes,
                   last_fix, time_offset, last_timesync_log, ser_out>>
    /\ UNCHANGED <<vvars, cvars, rvars>>

\* stop() called on a logger whose stop() has completed: it runs from its
\* first line again.
StopAgain ==
    /\ main_pc = "stopped"
    /\ final_stats < MaxReports
    /\ main_pc' = "stop"
    /\ UNCHANGED <<ntrip_config, running, ser, logfile, sync_file, sync_header, ntrip,
                   ntrip_ok, sock, start_time, final_stats, exit_status, read_pc, ntrip_pc,
                   workerdata, envs>>
    /\ UNCHANGED <<vvars, cvars, rvars>>

\* Every join of stop() is waited out (the worker is never inside a read for
\* two seconds), so that a worker seen later is one a later start() made.
NextReuse ==
    \/ Start \/ Interrupt
    \/ StopSignal \/ StopJoinRead \/ StopJoinNtrip
    \/ StopCloseLog \/ StopCloseSync \/ StopCloseNtrip \/ StopCloseSer \/ StopStats
    \/ RW_Loop \/ RW_Read
    \/ ReceiverSends
    \/ StartAgain \/ StopAgain

SpecReuse == InitSteady /\ [][NextReuse]_vars

\* ------------------------------------------------- NTRIPClient.connect()
\* The caster's reply as the words of the decoded text; "200 OK" is in the text
\* when the word 200 is followed by the word OK.
ReplyICY == <<"ICY", "200", "OK">>
ReplyHTTP == <<"HTTP/1.1", "200", "OK">>
ReplySourcetable == <<"SOURCETABLE", "200", "OK">>
ReplyUnauthorized == <<"HTTP/1.1", "401", "Unauthorized">>
ReplyCutShort == <<"ICY", "200">>
ReplyEmpty == <<>>

Replies == {ReplyICY, ReplyHTTP, ReplySourcetable, ReplyUnauthorized,
            ReplyCutShort, ReplyEmpty}

\* username and password of NTRIPClient.__init__ (None or empty: "")
Credentials == {<<"", "">>, <<"user", "">>, <<"user", "secret">>}

\* What the network does to one call of connect(): socket() succeeds or not,
\* the TCP connect, sendall and recv succeed or raise, the bytes received
\* decode as UTF-8 or not, and the decoded reply.
ConnectInputs ==
    [creds : Credentials, socket_ok : BOOLEAN, tcp_ok : BOOLEAN, send_ok : BOOLEAN,
     recv_ok : BOOLEAN, decodes : BOOLEAN, reply : Replies]

\* `"200 OK" in response` (line 98)
Has200OK(reply) ==
    \E i \in 1..(Len(reply) - 1) : reply[i] = "200" /\ reply[i + 1] = "OK"

\* The request sent (lines 81-93): the Authorization header is there only
\* when both username and password are non-empty.
Request(creds) ==
    <<"GET", "User-Agent">>
        \o (IF creds[1] # "" /\ creds[2] # "" THEN <<"Authorization">> ELSE <<>>)

\* A connect() that takes any reply it could read for a success.
ConnectTrustsReply(in) ==
    IF ~in.socket_ok THEN [raised |-> FALSE, ok |-> FALSE, sock |-> "none", sent |-> <<>>]
    ELSE IF ~in.tcp_ok THEN [raised |-> FALSE, ok |-> FALSE, sock |-> "unconnected", sent |-> <<>>]
    ELSE IF ~in.send_ok THEN [raised |-> FALSE, ok |-> FALSE, sock |-> "connected", sent |-> <<>>]
    ELSE IF ~in.recv_ok \/ ~in.decodes
        THEN [raised |-> FALSE, ok |-> FALSE, sock |-> "connected", sent |-> Request(in.creds)]
    ELSE [raised |-> FALSE, ok |-> TRUE, sock |-> "connected", sent |-> Request(in.creds)]

\* NTRIPClient.connect() (lines 74-106).  Every statement is inside the try,
\* and `except Exception` turns whatever was raised, the code's own
\* "connection failed" of line 99 included, into the return value False;
\* self.socket keeps what the try had assigned by then.
Connect(in) ==
    IF ~in.socket_ok THEN [raised |-> FALSE, ok |-> FALSE, sock |-> "none", sent |-> <<>>]
    ELSE IF ~in.tcp_ok THEN [raised |-> FALSE, ok |-> FALSE, sock |-> "unconnected", sent |-> <<>>]
    ELSE IF ~in.send_ok THEN [raised |-> FALSE, ok |-> FALSE, sock |-> "connected", sent |-> <<>>]
    ELSE IF ~in.recv_ok \/ ~in.decodes
        THEN [raised |-> FALSE, ok |-> FALSE, sock |-> "connected", sent |-> Request(in.creds)]
    ELSE IF ~Has200OK(in.reply)
        THEN [raised |-> FALSE, ok |-> FALSE, sock |-> "connected", sent |-> Request(in.creds)]
    ELSE [raised |-> FALSE, ok |-> TRUE, sock |-> "connected", sent |-> Request(in.creds)]

ConnectInit ==
    /\ c_pc = "call"
    /\ c_in \in ConnectInputs
    /\ c_out = <<>>

\* connect() is called on a fresh client and returns
C_Connect ==
    /\ c_pc = "call"
    /\ c_pc' = "done"
    /\ c_out' = Connect(c_in)
    /\ UNCHANGED c_in
    /\ UNCHANGED <<lvars, vvars, rvars>>

NextConnect == C_Connect

InitConnect == LoggerInit /\ ntrip_config = FALSE /\ ValidatorIdle /\ ConnectInit /\ RecorderIdle

SpecConnect == InitConnect /\ [][NextConnect]_vars

\* ------------------------------------------- camera recorder: dual_cam_jp2.py
\* main() runs in one thread: recorder.start() and the wait for 'q' inside a
\* try, recorder.stop() at its end (ctx "normal"), recorder.stop() again in
\* the `except Exception` (ctx "except"), and the SIGINT handler, which Python
\* runs in the main thread on top of whatever it interrupted and which calls
\* recorder.stop() and then sys.exit(0) (ctx "handler").  The statistics
\* thread only reads the outputs and never calls stop().
StartSteps == <<"cam1", "cam2", "out1", "out2", "start_cams", "start_rec">>

Frame(ctx, pc) == [ctx |-> ctx, pc |-> pc]

Top(stack) == stack[Len(stack)]

SetPc(stack, pc) == [stack EXCEPT ![Len(stack)].pc = pc]

\* The step after pc in a sequence of steps, or last after its last one.
StepAfter(steps, pc, last) ==
    LET i == CHOOSE k \in 1..Len(steps) : steps[k] = pc
    IN IF i < Len(steps) THEN steps[i + 1] ELSE last

InSteps(steps, pc) == \E k \in 1..Len(steps) : steps[k] = pc

\* stop() or what called it is done.  From the handler sys.exit(0) follows
\* (line 376): SystemExit is not an Exception, nothing catches it and the
\* process ends whatever the handler had interrupted.  From the try and from
\* the except, main() returns.
Returned(stack) ==
    IF Top(stack).ctx = "handler" THEN "sysexit" ELSE "returned"

\* An Exception raised in the innermost frame: it leaves a handler and comes
\* up where the handler had interrupted; inside the try it is caught by
\* `except Exception` (lines 396-400), which calls stop(); inside the except
\* nothing catches it and the process ends.
RECURSIVE Raised(_)
Raised(stack) ==
    IF Top(stack).ctx = "handler" THEN Raised(SubSeq(stack, 1, Len(stack) - 1))
    ELSE IF Top(stack).ctx = "normal" THEN <<Frame("except", "check")>>
    ELSE <<>>

\* A stop() that goes on whatever running holds.
StopNeverReturnsEarly(is_running) == FALSE

\* if not self.running: return (lines 316-317)
StopReturnsEarly(is_running) == ~is_running

RecorderInit ==
    /\ rec_stack = <<Frame("normal", "cam1")>>
    /\ rec_running = FALSE
    /\ rec_made = {}
    /\ rec_teardown = [t \in {TeardownSteps[i] : i \in 1..Len(TeardownSteps)} |-> 0]
    /\ rec_signals = 0
    /\ rec_exit = "none"

\* The process ends when the main thread has no frame left.
Ends(stack, how) ==
    /\ rec_stack' = stack
    /\ rec_exit' = IF stack = <<>> THEN how ELSE rec_exit

\* start(), lines 207-250: the cameras are made and configured, the outputs
\* opened, the cameras started and the recording started; each call can raise.
R_StartStep ==
    /\ rec_stack # <<>>
    /\ InSteps(StartSteps, Top(rec_stack).pc)
    /\ \E ok \in BOOLEAN :
        IF ok
        THEN /\ rec_made' = rec_made \cup {Top(rec_stack).pc}
             /\ rec_stack' = SetPc(rec_stack, StepAfter(StartSteps, Top(rec_stack).pc, "set_running"))
             /\ UNCHANGED rec_exit
        ELSE /\ Ends(Raised(rec_stack), "uncaught")
             /\ UNCHANGED rec_made
    /\ UNCHANGED <<rec_running, rec_teardown, rec_signals>>
    /\ UNCHANGED <<lvars, vvars, cvars>>

\* start(), line 252: self.running = True
R_SetRunning ==
    /\ rec_stack # <<>>
    /\ Top(rec_stack).pc = "set_running"
    /\ rec_running' = TRUE
    /\ rec_stack' = SetPc(rec_stack, "oled")
    /\ UNCHANGED <<rec_made, rec_teardown, rec_signals, rec_exit>>
    /\ UNCHANGED <<lvars, vvars, cvars>>

\* start(), lines 259-270: the first lines on the display, which can raise,
\* and the statistics thread; start() returns and main() waits for input.
R_StartEnd ==
    /\ rec_stack # <<>>
    /\ Top(rec_stack).pc = "oled"
    /\ \E ok \in BOOLEAN :
        IF ok THEN rec_stack' = SetPc(rec_stack, "wait") /\ UNCHANGED rec_exit
        ELSE Ends(Raised(rec_stack), "uncaught")
    /\ UNCHANGED <<rec_running, rec_made, rec_teardown, rec_signals>>
    /\ UNCHANGED <<lvars, vvars, cvars>>

\* main(), lines 386-394: 'q' or the end of input leaves the loop and stop()
\* is called; any other Exception of input() goes to the except.
R_Wait ==
    /\ rec_stack # <<>>
    /\ Top(rec_stack).pc = "wait"
    /\ \E quit \in BOOLEAN :
        IF quit THEN rec_stack' = SetPc(rec_stack, "check") /\ UNCHANGED rec_exit
        ELSE Ends(Raised(rec_stack), "uncaught")
    /\ UNCHANGED <<rec_running, rec_made, rec_teardown, rec_signals>>
    /\ UNCHANGED <<lvars, vvars, cvars>>

\* stop(), lines 316-317: the test of running
R_StopCheck ==
    /\ rec_stack # <<>>
    /\ Top(rec_stack).pc = "check"
    /\ IF StopReturnsEarly(rec_running)
       THEN Ends(<<>>, Returned(rec_stack))
       ELSE rec_stack' = SetPc(rec_stack, "clear") /\ UNCHANGED rec_exit
    /\ UNCHANGED <<rec_running, rec_made, rec_teardown, rec_signals>>
    /\ UNCHANGED <<lvars, vvars, cvars>>

\* stop(), lines 319-324: self.running = False, then the message on the
\* display, which can raise
R_StopClear ==
    /\ rec_stack # <<>>
    /\ Top(rec_stack).pc = "clear"
    /\ rec_running' = FALSE
    /\ \E ok \in BOOLEAN :
        IF ok THEN rec_stack' = SetPc(rec_stack, TeardownSteps[1]) /\ UNCHANGED rec_exit
        ELSE Ends(Raised(rec_stack), "uncaught")
    /\ UNCHANGED <<rec_made, rec_teardown, rec_signals>>
    /\ UNCHANGED <<lvars, vvars, cvars>>

\* stop(), lines 327-361: one teardown step is executed (on both cameras or
\* both outputs) and can raise; after the last one stop() returns.
R_Teardown ==
    /\ rec_stack # <<>>
    /\ InSteps(TeardownSteps, Top(rec_stack).pc)
    /\ rec_teardown' = [rec_teardown EXCEPT ![Top(rec_stack).pc] = @ + 1]
    /\ \E ok \in BOOLEAN :
        IF ok THEN rec_stack' = SetPc(rec_stack, StepAfter(TeardownSteps, Top(rec_stack).pc, "ret"))
                   /\ UNCHANGED rec_exit
        ELSE Ends(Raised(rec_stack), "uncaught")
    /\ UNCHANGED <<rec_running, rec_made, rec_signals>>
    /\ UNCHANGED <<lvars, vvars, cvars>>

\* stop() returns after the teardown
R_StopReturn ==
    /\ rec_stack # <<>>
    /\ Top(rec_stack).pc = "ret"
    /\ Ends(<<>>, Returned(rec_stack))
    /\ UNCHANGED <<rec_running, rec_made, rec_teardown, rec_signals>>
    /\ UNCHANGED <<lvars, vvars, cvars>>

\* SIGINT: signal_handler (lines 373-376) starts on top of the frame the main
\* thread is in, a handler included, and calls recorder.stop().
R_Signal ==
    /\ rec_stack # <<>>
    /\ rec_signals < MaxSignals
    /\ rec_signals' = rec_signals + 1
    /\ rec_stack' = Append(rec_stack, Frame("handler", "check"))
    /\ UNCHANGED <<rec_running, rec_made, rec_teardown, rec_exit>>
    /\ UNCHANGED <<lvars, vvars, cvars>>

NextRecorder ==
    \/ R_StartStep \/ R_SetRunning \/ R_StartEnd \/ R_Wait
    \/ R_StopCheck \/ R_StopClear \/ R_Teardown \/ R_StopReturn
    \/ R_Signal

InitRecorder == LoggerInit /\ ntrip_config = FALSE /\ ValidatorIdle /\ ConnectIdle /\ RecorderInit

SpecRecorder == InitRecorder /\ [][NextRecorder]_vars

\* ================================================================= claims

\* C1: the primary log is exactly the concatenation, in read order, of the
\* original bytes of every frame ubr.read() returned in the read/log worker,
\* decodable or not: none omitted, duplicated or reordered.
C1_LogIsEveryFrameRead == log = ConcatRaw(frames_read)

\* C2: during stop() the primary log, the correlation log, the correction
\* client socket and the serial device are closed only after both workers have
\* left their loops, so never while a worker has a read or write in flight.
C2_ReleaseAfterWorkersExit ==
    (logfile = "closed" \/ sync_file = "closed" \/ sock = "closed" \/ ser = "closed")
        => (Exited(read_pc) /\ Exited(ntrip_pc))

\* C3: once stop() has set running to false, the read/log worker and the relay
\* worker each eventually leave their loop, whether or not frames or
\* correction data still arrive.
C3_WorkersExitAfterShutdown ==
    [](main_pc \notin {"start", "running", "stop"}
          => <>(Exited(read_pc) /\ Exited(ntrip_pc)))

\* C4: a worker leaves its loop only in a step that finds running false;
\* frames, undecodable frames, timeouts, transport errors, correction data, no
\* data and client errors never end a loop while the pipeline is Logging.
C4_LoopsEndOnlyAfterShutdown ==
    [][((read_pc # "done" /\ read_pc' = "done") \/ (ntrip_pc # "done" /\ ntrip_pc' = "done"))
          => ~running]_vars

\* C4 witness: the pipeline is Logging after the read worker has met a fault
\* (an event was consumed and no frame came back) and after the caster has
\* gone, and both workers are still in their loops.
C4_Witness ==
    /\ running
    /\ rx_count >= 1 /\ rx = <<>> /\ frames_read = <<>>
    /\ read_pc = "loop"
    /\ sock = "dead" /\ chunks_read # <<>>
    /\ ntrip_pc = "loop"

\* C5: any two rows of the correlation log carry system times at least 10 s
\* (TimesyncInterval) apart.
C5_SamplesTenSecondsApart ==
    \A i, j \in 1..Len(sync_rows) :
        i < j => sync_rows[j].system_time - sync_rows[i].system_time >= TimesyncInterval

\* C5 witness: two samples were logged, with a fix that failed conversion
\* read between them.
C5_Witness ==
    /\ Len(sync_rows) = 2
    /\ frames_read = <<NavFix1, NavBadDate, NavFix1>>

\* C6 (as stated): after valid fixes arriving every 100 ms for 10.5 s have all
\* been read, exactly 1 sample is in the correlation log.
SteadyDone == rx_count = 105 /\ rx = <<>> /\ read_pc = "loop"

C6_ExactlyOneSample == SteadyDone => Len(sync_rows) = 1

\* C6 (amended): after valid fixes arriving every 100 ms for 10.5 s from the
\* start of a run have all been read, exactly 2 samples are in the correlation
\* log: the first fix is sampled (last_timesync_log starts at 0) and so is the
\* first fix read at least 10 s later; at no point are there more than 2.
C6_ExactlyTwoSamples ==
    /\ Len(sync_rows) <= 2
    /\ SteadyDone => (Len(sync_rows) = 2 /\ sync_rows[1].system_time <= StartTime + 1)

\* C6 witness: all 105 fixes have been read and logged.
C6_Witness == SteadyDone /\ messages = 105

\* C7: when the read of a navigation-type frame ends with no parsed message or
\* with the decoder throwing, parse_errors is incremented, the DecodedFix
\* snapshot stays as it was and the worker goes back to its loop.
C7_DecodeFailureCounted ==
    [][(read_pc = "read" /\ read_pc' # "read" /\ ser = "open" /\ rx # <<>>
            /\ Head(rx) \in {NavUndecodable, NavThrow})
          => (parse_errors' = parse_errors + 1 /\ last_fix' = last_fix /\ read_pc' = "loop")]_vars

\* C8: when a decoded navigation fix whose calendar or sub-second fields do
\* not convert is read, no row is appended to the correlation log, the
\* last-sample time and the time offset stay as they were, and the worker goes
\* back to its loop.
C8_BadDateSkipsSample ==
    [][(read_pc = "read" /\ read_pc' # "read" /\ ser = "open" /\ rx = <<NavBadDate>>)
          => (sync_rows' = sync_rows /\ last_timesync_log' = last_timesync_log
              /\ time_offset' = time_offset /\ read_pc' = "loop")]_vars

\* C8 witness: a fix that does not convert was read and logged while a sample
\* was due (no sample had been taken), it left no row, and the next fix read
\* was sampled.
C8_Witness ==
    /\ frames_read = <<NavBadDate, NavFix1>>
    /\ messages = 2
    /\ Len(sync_rows) = 1
    /\ last_fix = FixOf(NavFix1)

\* Ground truth: how many frames of a file carry a message identity.
CountId(file, id) == Cardinality({i \in 1..Len(file) : file[i].parsed /\ file[i].id = id})

\* C9: for an existing, non-empty file, validate() returns true exactly when
\* the error list is empty.
C9_VerdictIffNoErrors ==
    (v_pc = "done" /\ v_status = "nonempty")
        => (v_result = "true" <=> vstats.errors = <<>>)

\* C10: after a parsable non-empty log was validated, the error list holds the
\* raw-measurement error exactly when the file has no RXM-RAWX frame and the
\* ephemeris error exactly when it has no RXM-SFRBX frame, each once and
\* nothing else; a file with 0 RXM-RAWX and 5 RXM-SFRBX frames is invalid with
\* the raw-measurement error alone.
C10_RequiredTypeErrors ==
    v_outcome = "reported" =>
        /\ vstats.errors =
              (IF CountId(v_file, "RXM-RAWX") = 0 THEN <<RawxError>> ELSE <<>>)
              \o (IF CountId(v_file, "RXM-SFRBX") = 0 THEN <<SfrbxError>> ELSE <<>>)
        /\ (CountId(v_file, "RXM-RAWX") = 0 /\ CountId(v_file, "RXM-SFRBX") = 5)
              => (v_result = "false" /\ vstats.errors = <<RawxError>>)

\* C10 witness: a file of 5 RXM-SFRBX frames and no RXM-RAWX frame was validated.
C10_Witness ==
    /\ v_outcome = "reported"
    /\ CountId(v_file, "RXM-RAWX") = 0
    /\ CountId(v_file, "RXM-SFRBX") = 5

\* C17: if the serial transport cannot be opened, start() fails and the
\* pipeline never reaches Logging: running stays false, no worker thread is
\* started, the correction client is neither made nor contacted, and no log
\* file is created, up to and including the end of the process.
C17_SerialFailureStartsNothing ==
    (main_pc # "start" /\ ser = "none")
        => /\ ~running
           /\ read_pc = "idle" /\ ntrip_pc = "idle"
           /\ ~ntrip /\ sock = "none"
           /\ logfile = "none" /\ sync_file = "none" /\ ~sync_header
           /\ start_time = -1 /\ log = <<>>

C17_Witness == main_pc = "stopped" /\ ser = "none" /\ ntrip_config

\* C18: when the serial transport cannot be opened at start, the process
\* ends with a non-zero exit status.
C18_SerialFailureExitsNonZero ==
    (main_pc = "stopped" /\ ser = "none") => exit_status # 0

\* C19: when the relay client's connect fails while the serial port and both
\* log files open, start() still succeeds: running is set and the read/log
\* worker is started.
C19_NtripFailureIsNotFatal ==
    [][(main_pc = "start" /\ main_pc' # "start" /\ ntrip_config /\ ~ntrip_ok'
          /\ ser' = "open" /\ logfile' = "open" /\ sync_file' = "open")
       => (main_pc' = "running" /\ running' /\ read_pc' = "loop"
           /\ start_time' = clock)]_vars

C19_Witness ==
    /\ main_pc = "running" /\ ntrip_config /\ ~ntrip_ok /\ running
    /\ messages >= 1 /\ log # <<>>

\* C20: the relay worker runs only when a correction source is configured and
\* the client's connect succeeded; after a failed connect no relay worker is
\* started and the client is never polled.
C20_RelayOnlyWhenConnected ==
    (ntrip_pc # "idle") => (ntrip_config /\ ntrip_ok)

\* The largest satellite count carried by a navigation frame of a log, 0
\* when it has none.
RECURSIVE MaxNavSats(_)
MaxNavSats(file) ==
    IF file = <<>> THEN 0
    ELSE LET rest == MaxNavSats(Tail(file))
             f == Head(file)
         IN IF f.id = "NAV-PVT" /\ f.sats > rest THEN f.sats ELSE rest

HasWarning(w) == \E i \in 1..Len(vstats.warnings) : vstats.warnings[i] = w

\* C13: the satellite high-water mark of the report is the largest satellite
\* count carried by a navigation frame of the log (0 without one), and the
\* low-satellite warning is present exactly when that mark is below 5.
C13_HighWaterMarkIsOfNavFrames ==
    v_outcome = "reported"
        => /\ vstats.max_satellites = MaxNavSats(v_file)
           /\ HasWarning(LowSatWarning) <=> (MaxNavSats(v_file) < MinSatellites)

\* C15: for a missing or an empty file validate() fails at once: the verdict
\* is failing, no frame is read, no rule is evaluated, and every counter,
\* histogram and list is as initialised.
C15_MissingOrEmptyFailsAtOnce ==
    (v_status \in {"missing", "empty"} /\ v_pc # "start")
        => /\ v_pc \in {"done", "exited"}
           /\ v_outcome = v_status
           /\ v_result = "false"
           /\ v_file = <<>>
           /\ vstats = EmptyStats

C15_Witness == v_status = "empty" /\ v_pc = "done" /\ v_result = "false"

\* C16: the validator process exits with status 0 exactly when validate()
\* returned a passing verdict, and with a non-zero status otherwise: failing
\* verdict, missing or empty file, parse failure, missing argument.
C16_ExitStatusIsVerdict ==
    /\ v_pc # "exited" => v_exit = -1
    /\ v_pc = "exited" => /\ v_exit \in {0, 1}
                          /\ v_exit = 0 <=> v_result = "true"
    /\ (v_pc = "exited" /\ v_outcome \in {"none", "missing", "empty", "parse_error"})
          => v_exit = 1

C16_Witness ==
    /\ v_pc = "exited" /\ v_exit = 0 /\ v_outcome = "reported"
    /\ CountId(v_file, "RXM-RAWX") >= 1 /\ CountId(v_file, "RXM-SFRBX") >= 1

\* Frames of one type in a log given as runs.
RECURSIVE RunCount(_, _)
RunCount(runs, id) ==
    IF runs = <<>> THEN 0
    ELSE (IF Head(runs).f.id = id THEN Head(runs).n ELSE 0) + RunCount(Tail(runs), id)

\* Seconds from the first to the last navigation frame of a LongLog.
LogSpan(runs) == runs[Len(runs)].f.ts - runs[1].f.ts

\* count / duration < 9.5, in integers
SlowRate(count, duration) == duration > 0 /\ 2 * count < 19 * duration

\* C11: a rate warning for a critical message type is present exactly when the
\* navigation timestamps span more than zero seconds and the type's count
\* divided by that span is below 9.5; a low rate adds no error, so the 100 s
\* log with 1000 navigation and 700 raw-measurement frames and both required
\* types present is valid and carries the raw-measurement rate warning.
C11_RateWarningBelowNineAndAHalf ==
    v_outcome = "reported"
        => /\ HasWarning(NavRateWarning)
                <=> SlowRate(RunCount(v_script, "NAV-PVT"), LogSpan(v_script))
           /\ HasWarning(RawxRateWarning)
                <=> SlowRate(RunCount(v_script, "RXM-RAWX"), LogSpan(v_script))
           /\ vstats.errors = <<>>
           /\ v_result = "true"
           /\ v_script = LongLog(1000, 700, 5, 100, 8)
                => vstats.warnings = <<RawxRateWarning>>

C11_Witness ==
    /\ v_pc = "exited" /\ v_exit = 0
    /\ v_script = LongLog(1000, 700, 5, 100, 8)
    /\ vstats.nav_pvt_count = 1000 /\ vstats.rxm_rawx_count = 700

\* C12: the 100 s log with exactly 1000 navigation and 1000 raw-measurement
\* frames, both required types present and a satellite high-water mark of 8 is
\* valid with an empty warning list.
C12_TenHertzLogIsClean ==
    (v_outcome = "reported" /\ v_script = LongLog(1000, 1000, 5, 100, 8))
        => /\ v_result = "true"
           /\ vstats.errors = <<>>
           /\ vstats.warnings = <<>>
           /\ vstats.max_satellites = 8
           /\ vstats.last_timestamp - vstats.first_timestamp = 100

C12_Witness ==
    /\ v_outcome = "reported" /\ v_script = LongLog(1000, 1000, 5, 100, 8)
    /\ vstats.total_messages = 2005

\* C14: validating the same unchanged log file twice yields identical
\* reports (counts, histograms, timestamps, high-water mark, errors, warnings
\* and verdict); the second result does not depend on the first run.
C14_SecondReportEqualsFirst ==
    v_first.run => (vstats = v_first.stats /\ v_result = v_first.result)

\* C21: stop() first signals the workers and waits for them, then closes the
\* primary log, the correlation log, the relay client and the serial device in
\* that order: none of them is closed before running is false and both joins
\* have returned, and none is closed while an earlier one is still open.
C21_CloseOrder ==
    /\ (logfile = "closed" \/ sync_file = "closed" \/ sock = "closed" \/ ser = "closed")
          => (~running /\ main_pc \in {"close_sync", "close_ntrip", "close_ser",
                                        "stats", "stopped"})
    /\ logfile = "open" => (sync_file # "closed" /\ sock # "closed" /\ ser # "closed")
    /\ sync_file = "open" => (sock # "closed" /\ ser # "closed")
    /\ sock \in {"unconnected", "connected", "dead"} => ser # "closed"

C21_Witness ==
    /\ main_pc = "stopped" /\ logfile = "closed" /\ sync_file = "closed"
    /\ sock = "closed" /\ ser = "closed" /\ messages >= 1

\* C27: the bytes the relay worker has written to the serial device are
\* exactly the non-empty chunks the relay client returned, in order and
\* unmodified, and the relayed-byte counter is the number of bytes written.
C27_RelayIsVerbatim ==
    /\ ser_out = ConcatChunks(chunks_read)
    /\ rtcm_bytes = Len(ser_out)

\* C26: while Logging every statistics field has one writer: only a step of
\* the relay worker changes the relayed-byte counter, and only a step of the
\* read/log worker changes the message counter, the byte counter, the fix
\* snapshot and the time offset.
C26_SingleWriter ==
    [][/\ (rtcm_bytes' # rtcm_bytes)
            => (ntrip_pc = "recv" /\ ntrip_pc' # "recv"
                /\ read_pc' = read_pc /\ main_pc' = main_pc)
       /\ (messages' # messages \/ bytes_logged' # bytes_logged
             \/ last_fix' # last_fix \/ time_offset' # time_offset)
            => (read_pc = "read" /\ read_pc' # "read"
                /\ ntrip_pc' = ntrip_pc /\ main_pc' = main_pc)]_vars

C26_Witness ==
    /\ running /\ rtcm_bytes > 0 /\ messages > 0 /\ last_fix = FixOf(NavFix1)
    /\ time_offset # 0

\* C28: while Logging the status summary keeps being emitted at its interval
\* even when the read/log worker gets no frame: whenever an iteration of the
\* worker ends with 2 s or more gone since the last status line, a status
\* line is emitted.
C28_StatusWithoutFrames ==
    [][(running /\ read_pc = "read" /\ read_pc' # "read"
          /\ StatusDue(clock, last_status_time))
       => last_status_time' = clock]_vars

\* Frames in a log: every frame begins with the sync bytes 181, 98.
FramesIn(bytes) ==
    Cardinality({i \in 1..(Len(bytes) - 1) : bytes[i] = 181 /\ bytes[i + 1] = 98})

\* C30: at every point of a run the byte counter is the length of the primary
\* log and the message counter is the number of frames in it; neither counter
\* decreases, and a frame whose write to the log failed is counted in neither.
C30_CountersMatchLog ==
    [][/\ bytes_logged' = Len(log')
       /\ messages' = FramesIn(log')
       /\ bytes_logged' >= bytes_logged
       /\ messages' >= messages
       /\ (frames_read' # frames_read /\ log' = log)
            => (messages' = messages /\ bytes_logged' = bytes_logged)]_vars

C30_Witness ==
    /\ Len(frames_read) = 2 /\ messages = 1 /\ logfile = "closed"
    /\ bytes_logged = Len(frames_read[1].raw)

\* C23: every call of read_corrections() returns to its caller, with bytes or
\* with none, also while the caster is silent: a relay worker that has
\* entered the read is eventually out of it again.
C23_ReadCorrectionsReturns ==
    [](ntrip_pc = "recv" => <>(ntrip_pc # "recv"))

\* C25: when the correction source was unavailable at start or went away
\* mid-run, the pipeline keeps retrying it in the background while it logs:
\* as long as it runs, a lost or failed connection is eventually followed by
\* an established one.
C25_RelayReconnects ==
    []((running /\ ntrip /\ sock \in {"unconnected", "dead"})
          => <>(~running \/ sock = "connected"))

\* C22: connect() returns success exactly when the socket could be made, the
\* TCP connection, the sending of the request and the reading of the reply all
\* succeeded and the reply read carries the status 200 OK (as ICY, HTTP or
\* SOURCETABLE reply); in every other case it returns failure, and in no case
\* does an exception reach the caller.
C22_ConnectSucceedsIffReplyOk ==
    c_pc = "done" =>
        /\ ~c_out.raised
        /\ c_out.ok <=> (/\ c_in.socket_ok /\ c_in.tcp_ok /\ c_in.send_ok
                         /\ c_in.recv_ok /\ c_in.decodes
                         /\ c_in.reply \in {ReplyICY, ReplyHTTP, ReplySourcetable})

\* connect() returned failure because the caster answered 401 to a request
\* that was sent with credentials over a working connection.
C22_Witness ==
    /\ c_pc = "done"
    /\ ~c_out.ok
    /\ c_in.socket_ok /\ c_in.tcp_ok /\ c_in.send_ok /\ c_in.recv_ok /\ c_in.decodes
    /\ c_in.reply = ReplyUnauthorized
    /\ c_out.sent = <<"GET", "User-Agent", "Authorization">>

\* C29: in every row of the correlation log the week count and the time of
\* week split the seconds elapsed since the epoch origin: week * 604800 + time
\* of week is the elapsed time and 0 <= time of week < 604800, for times
\* before the origin as for times after it.
C29_WeekAndTowSplitElapsed ==
    \A i \in 1..Len(sync_rows) :
        /\ sync_rows[i].gps_week * SecondsPerWeek + sync_rows[i].gps_tow = sync_rows[i].gps_time
        /\ 0 <= sync_rows[i].gps_tow
        /\ sync_rows[i].gps_tow < SecondsPerWeek

\* C24: once stop() has completed, whatever is called on the logger next, no
\* worker runs again, nothing more is written to or removed from the two logs,
\* and the final statistics are never reported a second time.
C24_StoppedIsTerminal ==
    [][ /\ main_pc = "stopped" =>
              /\ ~running'
              /\ Exited(read_pc') /\ Exited(ntrip_pc')
              /\ log' = log /\ sync_rows' = sync_rows
        /\ final_stats' <= 1 ]_vars

\* C31: a worker is started only in a step that leaves the serial port open,
\* the primary log open, the correlation log open with its header row written
\* and running true; so whenever a worker is alive each of these has existed,
\* and a start() whose log files did not open starts no worker.
C31_WorkersStartAfterResources ==
    [][ /\ ((Exited(read_pc) /\ ~Exited(read_pc')) \/ (Exited(ntrip_pc) /\ ~Exited(ntrip_pc')))
              => /\ ser' = "open" /\ logfile' = "open" /\ sync_file' = "open"
                 /\ sync_header' /\ running'
        /\ (~Exited(read_pc') \/ ~Exited(ntrip_pc'))
              => /\ ser' # "none" /\ logfile' # "none" /\ sync_file' # "none"
                 /\ sync_header'
        /\ (main_pc = "start" /\ (logfile' # "open" \/ sync_file' # "open"))
              => (Exited(read_pc') /\ Exited(ntrip_pc')) ]_vars

\* Both workers are at work, started by a start() that opened everything.
C31_Witness ==
    /\ read_pc = "read" /\ ntrip_pc = "recv"
    /\ running /\ ser = "open" /\ logfile = "open" /\ sync_file = "open" /\ sync_header

\* The sum of the counts a histogram holds for the keys of S.
RECURSIVE SumOver(_, _)
SumOver(hist, S) ==
    IF S = {} THEN 0
    ELSE LET k == CHOOSE x \in S : TRUE IN hist[k] + SumOver(hist, S \ {k})

\* C32: whenever the validator has taken a frame, the total message count is
\* the sum of the per-type counts, each of the five dedicated counters is the
\* per-type count of its message type, and the fix-type histogram sums to at
\* most the count of navigation frames.
C32_CountersAgree ==
    v_file # <<>> =>
        /\ vstats.total_messages = SumOver(vstats.message_types, MsgIds)
        /\ vstats.nav_pvt_count = vstats.message_types["NAV-PVT"]
        /\ vstats.rxm_rawx_count = vstats.message_types["RXM-RAWX"]
        /\ vstats.rxm_sfrbx_count = vstats.message_types["RXM-SFRBX"]
        /\ vstats.nav_status_count = vstats.message_types["NAV-STATUS"]
        /\ vstats.nav_sat_count = vstats.message_types["NAV-SAT"]
        /\ SumOver(vstats.fix_types, FixTypes) <= vstats.nav_pvt_count

\* C33: in the camera recorder every teardown step (stop recording, stop the
\* cameras, close the timestamp files, close the cameras) is executed at most
\* once, however stop() is called from the end of the try, from the except and
\* from the interrupt handler, and only when start() had made both cameras and
\* both outputs and had started the cameras and the recording.
C33_TeardownAtMostOnce ==
    \A i \in 1..Len(TeardownSteps) :
        /\ rec_teardown[TeardownSteps[i]] <= 1
        /\ rec_teardown[TeardownSteps[i]] >= 1
              => \A k \in 1..Len(StartSteps) : StartSteps[k] \in rec_made

\* The teardown raised after its first step inside the try, the except called
\* stop() again, and that call returned without tearing down anything.
C33_Witness ==
    /\ rec_exit = "returned"
    /\ rec_teardown["stop_rec"] = 1
    /\ rec_teardown["close_cams"] = 0
====
